---- MODULE Spec2Model ----
(***************************************************************************)
(* txt2pdf: conversion of simplified-Markdown chapter text to LaTeX        *)
(* (convert_simplified_markdown_to_latex), the chapter aggregation         *)
(* (preprocess_input) and the main program, as state machines.             *)
(*                                                                         *)
(* Text is a sequence of one-character strings, a list of lines is a       *)
(* sequence of such sequences.                                             *)
(***************************************************************************)
EXTENDS Integers, Sequences, FiniteSets, TLC

\* ------------------------------------------------------------------ bounds

\* How many tokens an input text drawn from Tokens holds at most.
MaxTokens == 4

\* How many body lines an input text drawn from BodyLines holds at most.
MaxLines == 4

\* How many source paths the command line names at most.
MaxSources == 3

\* ------------------------------------------------------- program constants

TEX_ITALIC_PRE_STR == <<"\\", "e", "m", "p", "h", "{">>

TEX_ITALIC_POST_STR == <<"}">>

BEGIN_VERSE == <<"\\", "b", "e", "g", "i", "n", "{", "v", "e", "r", "s", "e", "}">>

END_VERSE == <<"\\", "e", "n", "d", "{", "v", "e", "r", "s", "e", "}">>

BEGIN_QUOTE == <<"\\", "b", "e", "g", "i", "n", "{", "q", "u", "o", "t", "e", "}">>

END_QUOTE == <<"\\", "e", "n", "d", "{", "q", "u", "o", "t", "e", "}">>

VSPACE == <<"\\", "v", "s", "p", "a", "c", "e", "{", "6", "m", "m", "}">>

LINE_BREAK == <<"\\", "\\">>

\* The characters str.lstrip() removes (those an input of the model can hold).
WHITESPACE == {" ", "\t", "\n"}

\* The line boundaries of str.splitlines() that survive open(path, 'rU'),
\* which turns "\r\n" and "\r" into "\n" (those an input of the model can hold).
LINE_BOUNDARIES == {"\n"}

\* ---------------------------------------------------------- string helpers

Min(a, b) == IF a < b THEN a ELSE b

\* s[0:n]
Slice(s, n) == SubSeq(s, 1, Min(n, Len(s)))

\* s[n:]
Drop(s, n) == SubSeq(s, n + 1, Len(s))

\* s.startswith(p)
StartsWith(s, p) == Len(s) >= Len(p) /\ SubSeq(s, 1, Len(p)) = p

\* s.count(c) for a one-character c
RECURSIVE Count(_, _)
Count(s, c) ==
    IF s = <<>> THEN 0
    ELSE (IF s[1] = c THEN 1 ELSE 0) + Count(Tail(s), c)

\* s.count(p) for a string p (non-overlapping, left to right)
RECURSIVE CountSub(_, _)
CountSub(s, p) ==
    IF Len(s) < Len(p) THEN 0
    ELSE IF StartsWith(s, p) THEN 1 + CountSub(Drop(s, Len(p)), p)
    ELSE CountSub(Tail(s), p)

\* The alternative to Find: the rightmost occurrence (str.rfind), 1-based.
RFind(s, c) ==
    IF \E i \in 1..Len(s) : s[i] = c
    THEN CHOOSE i \in 1..Len(s) : s[i] = c /\ \A j \in (i + 1)..Len(s) : s[j] # c
    ELSE 0

\* s.find(c) for a one-character c, 1-based; 0 is Python's -1.
Find(s, c) ==
    IF \E i \in 1..Len(s) : s[i] = c
    THEN CHOOSE i \in 1..Len(s) : s[i] = c /\ \A j \in 1..(i - 1) : s[j] # c
    ELSE 0

\* s.replace(old, new): every non-overlapping occurrence, left to right.
RECURSIVE Replace(_, _, _)
Replace(s, old, new) ==
    IF Len(s) < Len(old) THEN s
    ELSE IF StartsWith(s, old) THEN new \o Replace(Drop(s, Len(old)), old, new)
    ELSE <<s[1]>> \o Replace(Tail(s), old, new)

\* A match of the regular expression \[\[.*?\]\] at the start of s: the index
\* of its last character, 0 when there is none.  '.' matches any character
\* but "\n" (no re.DOTALL), and .*? takes the shortest match.
CommentMatchEnd(s) ==
    LET ends == { j \in 3..(Len(s) - 1) :
                    /\ s[j] = "]" /\ s[j + 1] = "]"
                    /\ \A k \in 3..(j - 1) : s[k] # "\n" }
    IN  IF StartsWith(s, <<"[", "[">>) /\ ends # {}
        THEN 1 + CHOOSE j \in ends : \A k \in ends : j <= k
        ELSE 0

\* re.sub(r'\[\[.*?\]\]', '', s)
RECURSIVE RemoveComments(_)
RemoveComments(s) ==
    IF s = <<>> THEN <<>>
    ELSE IF CommentMatchEnd(s) > 0 THEN RemoveComments(Drop(s, CommentMatchEnd(s)))
    ELSE <<s[1]>> \o RemoveComments(Tail(s))

\* s.splitlines()
RECURSIVE SplitLines(_)
SplitLines(s) ==
    IF s = <<>> THEN <<>>
    ELSE IF \E i \in 1..Len(s) : s[i] \in LINE_BOUNDARIES
    THEN LET k == CHOOSE i \in 1..Len(s) :
                    s[i] \in LINE_BOUNDARIES /\ \A j \in 1..(i - 1) : s[j] \notin LINE_BOUNDARIES
         IN  <<SubSeq(s, 1, k - 1)>> \o SplitLines(Drop(s, k))
    ELSE <<s>>

\* "\n".join(lines)
RECURSIVE Join(_)
Join(lines) ==
    IF lines = <<>> THEN <<>>
    ELSE IF Len(lines) = 1 THEN lines[1]
    ELSE lines[1] \o <<"\n">> \o Join(Tail(lines))

\* s.lstrip()
RECURSIVE LStrip(_)
LStrip(s) ==
    IF s # <<>> /\ s[1] \in WHITESPACE THEN LStrip(Tail(s)) ELSE s

\* ------------------------------- convert_simplified_markdown_to_latex, parts

\* Lines 48-53: the literal replacements, the comment removal, the list dash.
PreProcess(c) ==
    LET c1 == Replace(c, <<"\"">>, <<"'", "'">>)
        c2 == Replace(c1, <<" ", "-", " ">>, <<" ", "-", "-", " ">>)
        c3 == Replace(c2, <<"&">>, <<"\\", "&">>)
        c4 == Replace(c3, <<"#">>, <<"\\", "#">>)
        c5 == RemoveComments(c4)
    IN  Replace(c5, <<"\n", "-", " ">>, <<"\n", "-", "-", " ">>)

\* Lines 59-66 with the flag never cleared by a closing marker.
EmphasisBodyNoReset(c, state, pos) ==
    IF state
    THEN [content |-> SubSeq(c, 1, pos - 1) \o TEX_ITALIC_POST_STR \o Drop(c, pos),
          state |-> TRUE]
    ELSE [content |-> SubSeq(c, 1, pos - 1) \o TEX_ITALIC_PRE_STR \o Drop(c, pos),
          state |-> TRUE]

\* Lines 59-66 with the flag never set by an opening marker.
EmphasisBodyNoSet(c, state, pos) ==
    IF state
    THEN [content |-> SubSeq(c, 1, pos - 1) \o TEX_ITALIC_POST_STR \o Drop(c, pos),
          state |-> FALSE]
    ELSE [content |-> SubSeq(c, 1, pos - 1) \o TEX_ITALIC_PRE_STR \o Drop(c, pos),
          state |-> FALSE]

\* Lines 59-66: one iteration of the emphasis loop at the underscore at pos.
\* (The pos += ... of lines 61 and 65 is overwritten by line 67.)
EmphasisBody(c, state, pos) ==
    IF state
    THEN [content |-> SubSeq(c, 1, pos - 1) \o TEX_ITALIC_POST_STR \o Drop(c, pos),
          state |-> FALSE]
    ELSE [content |-> SubSeq(c, 1, pos - 1) \o TEX_ITALIC_PRE_STR \o Drop(c, pos),
          state |-> TRUE]

\* Lines 57 and 67 with rfind in place of find.
NextUnderscoreFromRight(c) == RFind(c, "_")

\* Lines 57 and 67: pos = content.find('_')
NextUnderscore(c) == Find(c, "_")

\* Lines 68-69: how many warnings the end of the loop prints.
EmphasisWarning(state) == IF state THEN 1 ELSE 0

\* Line 80
IsVerseLine(paragraph) == Slice(paragraph, 4) = <<" ", " ", " ", " ">>

\* Line 95
IsQuoteLine(paragraph) == Slice(paragraph, 2) = <<">", " ">>

\* Lines 84 and 89 without the lstrip.
VerseTextUnstripped(paragraph) == paragraph \o LINE_BREAK

\* Lines 84 and 89: paragraph.lstrip() + '\\\\'
VerseText(paragraph) == LStrip(paragraph) \o LINE_BREAK

\* Line 104 without the forced line break.
QuoteContinuationNoBreak(paragraph) == Drop(paragraph, 2)

\* Line 104: '\\\\' + paragraph[2:]
QuoteContinuation(paragraph) == LINE_BREAK \o Drop(paragraph, 2)

\* Lines 81-90: a verse line; st is [verse, quote, new_paragraphs].
VerseBranch(paragraph, st) ==
    IF ~st.verse
    THEN [st EXCEPT !.new_paragraphs = @ \o <<BEGIN_VERSE, VerseText(paragraph)>>,
                    !.verse = TRUE]
    ELSE [st EXCEPT !.new_paragraphs = @ \o <<VerseText(paragraph)>>]

\* Lines 91-94: the end of a verse block, on a line that is no verse line.
EndOfVerse(st) ==
    IF st.verse
    THEN [st EXCEPT !.new_paragraphs = @ \o <<END_VERSE>>, !.verse = FALSE]
    ELSE st

\* Lines 96-105: a quote line.
QuoteBranch(paragraph, st) ==
    IF ~st.quote
    THEN [st EXCEPT !.new_paragraphs = @ \o <<BEGIN_QUOTE, Drop(paragraph, 2)>>,
                    !.quote = TRUE]
    ELSE [st EXCEPT !.new_paragraphs = @ \o <<QuoteContinuation(paragraph)>>]

\* Lines 106-109: the end of a quote block, on a line that is no quote line.
EndOfQuote(st) ==
    IF st.quote
    THEN [st EXCEPT !.new_paragraphs = @ \o <<END_QUOTE>>, !.quote = FALSE]
    ELSE st

\* Lines 110-113: the scene break, or the line as it is.
PlainBranch(paragraph, st) ==
    IF paragraph = <<"*">>
    THEN [st EXCEPT !.new_paragraphs = @ \o <<VSPACE>>]
    ELSE [st EXCEPT !.new_paragraphs = @ \o <<paragraph>>]

\* Lines 80-113: the body of the loop over the paragraphs.  A verse line
\* ends the iteration at its continue, before the quote test of line 95.
BlockBody(paragraph, st) ==
    IF IsVerseLine(paragraph)
    THEN VerseBranch(paragraph, st)
    ELSE IF IsQuoteLine(paragraph)
    THEN QuoteBranch(paragraph, EndOfVerse(st))
    ELSE PlainBranch(paragraph, EndOfQuote(EndOfVerse(st)))


\* Lines 56-67: the emphasis loop as a whole.
RECURSIVE EmphasisLoop(_, _)
EmphasisLoop(c, state) ==
    IF NextUnderscore(c) = 0 THEN [content |-> c, state |-> state]
    ELSE LET r == EmphasisBody(c, state, NextUnderscore(c))
         IN  EmphasisLoop(r.content, r.state)

\* Lines 77-78: the toggles and the output list before the first paragraph.
BlockStart == [verse |-> FALSE, quote |-> FALSE, new_paragraphs |-> <<>>]

\* Lines 79-113: the loop over the paragraphs as a whole.
RECURSIVE BlockLoop(_, _)
BlockLoop(ps, st) ==
    IF ps = <<>> THEN st ELSE BlockLoop(Tail(ps), BlockBody(ps[1], st))

\* Lines 45-116 as a function of the text: what a caller gets.  raised is the
\* IndexError of line 72 on a text without a first line.
Convert(text) ==
    LET e == EmphasisLoop(PreProcess(text), FALSE)
        lines == SplitLines(e.content)
    IN  IF lines = <<>>
        THEN [raised |-> TRUE, title |-> <<>>, content |-> <<>>,
              warnings |-> EmphasisWarning(e.state)]
        ELSE [raised |-> FALSE, title |-> lines[1],
              content |-> Join(BlockLoop(Tail(lines), BlockStart).new_paragraphs),
              warnings |-> EmphasisWarning(e.state)]

\* ------------------------------------------------------------------ inputs

RECURSIVE Concat(_)
Concat(parts) == IF parts = <<>> THEN <<>> ELSE parts[1] \o Concat(Tail(parts))

SeqsUpTo(S, n) == UNION { [1..k -> S] : k \in 0..n }

\* Fragments of chapter text for the inline rules: emphasis markers, comment
\* delimiters, brackets, line breaks, a character each literal rule rewrites.
Tokens ==
    { <<"_">>, <<"[", "[">>, <<"]", "]">>, <<"]">>, <<"\n">>, <<"a">>,
      <<"&">>, <<" ", "-", " ">> }

TokenTexts == { Concat(ts) : ts \in SeqsUpTo(Tokens, MaxTokens) }

\* Body lines for the block rules: verse, quote, scene break, plain, empty,
\* a list dash, an emphasised word, three leading spaces (no verse line).
BodyLines ==
    { <<" ", " ", " ", " ", "v">>, <<">", " ", "q">>, <<"*">>, <<"p">>, <<>>,
      <<" ", " ", " ", "x">>, <<">", " ", " ", " ", " ", " ", "r">> }

LineTexts ==
    { <<"T">> \o Concat([k \in 1..Len(ls) |-> <<"\n">> \o ls[k]]) :
        ls \in SeqsUpTo(BodyLines, MaxLines) }

\* What a source file can hold in a run of the main program.
ChapterTexts ==
    { <<>>, <<"T", "\n", "_", "x", "_">>, <<"T", "\n", ">", " ", "q", "\n", "_">> }

\* ------------------------------------------------------------------- state

VARIABLES
    pc,                     \* convert_...: "call", "while", "for", "returned", "raised", "idle"
    input,                  \* the text the function was called with
    content,                \* content (lines 48-67, 114)
    emphasized_text_state,  \* line 56
    warnings,               \* how many times line 69 printed
    title,                  \* line 72
    paragraphs,             \* line 73
    idx,                    \* how many paragraphs the loop of line 79 has taken
    new_paragraphs,         \* line 74
    verse,                  \* line 77
    quote,                  \* line 78
    pre,                    \* history: content as the emphasis loop found it (after line 53)
    iters,                  \* history: iterations of the loop of line 58
    hist,                   \* history: per paragraph taken, the toggles and Len(new_paragraphs) before it
    mpc,                    \* __main__: its position, "idle" outside a run
    nsources,               \* len(args.sources); path k is args.sources[k-1]
    latex_bin,              \* line 204: "unset", "found", "None"
    nextpath,               \* the path the loop of line 135 takes next
    chapters,               \* metadata['chapters']
    language,               \* metadata['language'], "unset" before line 158
    returned,               \* whether preprocess_input returned its metadata
    reads,                  \* history: per path opened, [path, outcome]
    exc,                    \* the exception that ended the run: [kind, path], kind "none" if none
    temp_dir,               \* "unset", "exists", "removed"
    copied,                 \* the files copied to the current directory
    exit_code               \* -1 while running

convVars ==
    <<pc, input, content, emphasized_text_state, warnings, title, paragraphs, idx,
      new_paragraphs, verse, quote, pre, iters, hist>>

mainVars ==
    <<mpc, nsources, latex_bin, nextpath, chapters, language, returned, reads, exc,
      temp_dir, copied, exit_code>>

vars == <<convVars, mainVars>>

NoException == [kind |-> "none", path |-> 0]

\* The function's locals at a call with text.
ConvCall(text) ==
    /\ pc = "call"
    /\ input = text
    /\ content = text
    /\ emphasized_text_state = FALSE
    /\ warnings = 0
    /\ title = <<>>
    /\ paragraphs = <<>>
    /\ idx = 0
    /\ new_paragraphs = <<>>
    /\ verse = FALSE
    /\ quote = FALSE
    /\ pre = <<>>
    /\ iters = 0
    /\ hist = <<>>

ConvIdle ==
    /\ pc = "idle"
    /\ input = <<>>
    /\ content = <<>>
    /\ emphasized_text_state = FALSE
    /\ warnings = 0
    /\ title = <<>>
    /\ paragraphs = <<>>
    /\ idx = 0
    /\ new_paragraphs = <<>>
    /\ verse = FALSE
    /\ quote = FALSE
    /\ pre = <<>>
    /\ iters = 0
    /\ hist = <<>>

\* The main program before line 202, run with n source paths.
MainStart(n) ==
    /\ mpc = "find_latex"
    /\ nsources = n
    /\ latex_bin = "unset"
    /\ nextpath = 1
    /\ chapters = <<>>
    /\ language = "unset"
    /\ returned = FALSE
    /\ reads = <<>>
    /\ exc = NoException
    /\ temp_dir = "unset"
    /\ copied = {}
    /\ exit_code = -1

MainIdle ==
    /\ mpc = "idle"
    /\ nsources = 0
    /\ latex_bin = "unset"
    /\ nextpath = 1
    /\ chapters = <<>>
    /\ language = "unset"
    /\ returned = FALSE
    /\ reads = <<>>
    /\ exc = NoException
    /\ temp_dir = "unset"
    /\ copied = {}
    /\ exit_code = -1

\* A call of convert_simplified_markdown_to_latex with any text of the inputs.
Init ==
    /\ \E text \in TokenTexts \cup LineTexts : ConvCall(text)
    /\ MainIdle

\* A run of the main program with 1..MaxSources paths (nargs='+', line 194).
InitMain ==
    /\ ConvIdle
    /\ \E n \in 1..MaxSources : MainStart(n)

\* ------------------------------ convert_simplified_markdown_to_latex, steps

\* Lines 48-57: the rewriting before the emphasis loop, and the loop's start.
Preprocess ==
    /\ pc = "call"
    /\ content' = PreProcess(content)
    /\ pre' = PreProcess(content)
    /\ emphasized_text_state' = FALSE
    /\ pc' = "while"
    /\ UNCHANGED <<input, warnings, title, paragraphs, idx, new_paragraphs, verse,
                   quote, iters, hist, mainVars>>

\* Lines 58-67: one iteration of the emphasis loop.
EmphasisIteration ==
    /\ pc = "while"
    /\ NextUnderscore(content) > 0
    /\ LET r == EmphasisBody(content, emphasized_text_state, NextUnderscore(content))
       IN  /\ content' = r.content
           /\ emphasized_text_state' = r.state
    /\ iters' = iters + 1
    /\ UNCHANGED <<pc, input, warnings, title, paragraphs, idx, new_paragraphs, verse,
                   quote, pre, hist, mainVars>>

\* Lines 68-78: the loop's exit, the warning, the split into title and
\* paragraphs; a text without a first line raises at line 72.
EmphasisExit ==
    /\ pc = "while"
    /\ NextUnderscore(content) = 0
    /\ warnings' = warnings + EmphasisWarning(emphasized_text_state)
    /\ \/ /\ SplitLines(content) = <<>>
          /\ pc' = "raised"
          /\ UNCHANGED <<title, paragraphs>>
       \/ /\ SplitLines(content) # <<>>
          /\ title' = SplitLines(content)[1]
          /\ paragraphs' = Tail(SplitLines(content))
          /\ pc' = "for"
    /\ new_paragraphs' = BlockStart.new_paragraphs
    /\ verse' = BlockStart.verse
    /\ quote' = BlockStart.quote
    /\ UNCHANGED <<input, content, emphasized_text_state, idx, pre, iters, hist, mainVars>>

\* Lines 79-113: one paragraph of the block loop.
BlockIteration ==
    /\ pc = "for"
    /\ idx < Len(paragraphs)
    /\ LET st == BlockBody(paragraphs[idx + 1],
                           [verse |-> verse, quote |-> quote,
                            new_paragraphs |-> new_paragraphs])
       IN  /\ verse' = st.verse
           /\ quote' = st.quote
           /\ new_paragraphs' = st.new_paragraphs
    /\ hist' = Append(hist, [verse |-> verse, quote |-> quote, len |-> Len(new_paragraphs)])
    /\ idx' = idx + 1
    /\ UNCHANGED <<pc, input, content, emphasized_text_state, warnings, title, paragraphs,
                   pre, iters, mainVars>>

\* Lines 114-116: the join and the return of (title, content).
Return ==
    /\ pc = "for"
    /\ idx = Len(paragraphs)
    /\ content' = Join(new_paragraphs)
    /\ pc' = "returned"
    /\ UNCHANGED <<input, emphasized_text_state, warnings, title, paragraphs, idx,
                   new_paragraphs, verse, quote, pre, iters, hist, mainVars>>

Next ==
    \/ Preprocess
    \/ EmphasisIteration
    \/ EmphasisExit
    \/ BlockIteration
    \/ Return

Spec == Init /\ [][Next]_vars


\* ------------------------------------------------------------- __main__, steps

\* The end of the process: sys.exit(code), the end of the script (code 0),
\* or an exception no except clause of lines 226-238 takes (code 1).
Exit(code, e) ==
    /\ mpc' = "exit"
    /\ exit_code' = code
    /\ exc' = e

Uncaught(kind) == Exit(1, [kind |-> kind, path |-> 0])

\* Lines 141 and 226-228: the exception with the failing path, its message, exit 1.
HandleInvalidInput(path) ==
    Exit(1, [kind |-> "InvalidInputTxtFileException", path |-> path])

\* Lines 203-207: the search for the LaTeX binary.
FindLatexBinary ==
    /\ mpc = "find_latex"
    /\ \/ /\ latex_bin' = "None"
          /\ Exit(1, NoException)
       \/ /\ latex_bin' = "found"
          /\ mpc' = "preprocess"
          /\ UNCHANGED <<exc, exit_code>>
    /\ UNCHANGED <<convVars, nsources, nextpath, chapters, language, returned, reads,
                   temp_dir, copied>>

\* Lines 135-149: one path of the loop of preprocess_input.  open/read give
\* the file's text, raise IOError (OSError), or raise something else (a
\* UnicodeDecodeError on bytes that are no text); only IOError is caught.
ReadSource ==
    /\ mpc = "preprocess"
    /\ nextpath <= nsources
    /\ \/ /\ reads' = Append(reads, [path |-> nextpath, outcome |-> "IOError"])
          /\ HandleInvalidInput(nextpath)
          /\ UNCHANGED <<chapters, nextpath>>
       \/ /\ reads' = Append(reads, [path |-> nextpath, outcome |-> "UnicodeDecodeError"])
          /\ Uncaught("UnicodeDecodeError")
          /\ UNCHANGED <<chapters, nextpath>>
       \/ \E text \in ChapterTexts :
            /\ reads' = Append(reads, [path |-> nextpath, outcome |-> "read"])
            /\ IF Convert(text).raised
               THEN /\ Uncaught("IndexError")
                    /\ UNCHANGED <<chapters, nextpath>>
               ELSE /\ chapters' = Append(chapters,
                                          [title |-> Convert(text).title,
                                           content |-> Convert(text).content])
                    /\ nextpath' = nextpath + 1
                    /\ UNCHANGED <<mpc, exc, exit_code>>
    /\ UNCHANGED <<convVars, nsources, latex_bin, language, returned, temp_dir, copied>>

\* Lines 151-163: the language of the first chapter and the return of the
\* metadata; langdetect.detect may raise (a text with no features).
DetectLanguage ==
    /\ mpc = "preprocess"
    /\ nextpath > nsources
    /\ \/ /\ Uncaught("LangDetectException")
          /\ UNCHANGED <<language, returned>>
       \/ /\ language' \in {"swedish", "english", "None"}
          /\ returned' = TRUE
          /\ mpc' = "mkdtemp"
          /\ UNCHANGED <<exc, exit_code>>
    /\ UNCHANGED <<convVars, nsources, latex_bin, nextpath, chapters, reads, temp_dir,
                   copied>>

\* Lines 212-215: the temporary working directory.
MakeTempDir ==
    /\ mpc = "mkdtemp"
    /\ temp_dir' = "exists"
    /\ mpc' = "generate_latex_source"
    /\ UNCHANGED <<convVars, nsources, latex_bin, nextpath, chapters, language, returned,
                   reads, exc, copied, exit_code>>

\* Lines 217-218: the template rendered into the .tex file, or an exception
\* of jinja2 or of open().
GenerateLatexSource ==
    /\ mpc = "generate_latex_source"
    /\ \/ Uncaught("TemplateError")
       \/ /\ mpc' = "generate_pdf_output"
          /\ UNCHANGED <<exc, exit_code>>
    /\ UNCHANGED <<convVars, nsources, latex_bin, nextpath, chapters, language, returned,
                   reads, temp_dir, copied>>

\* Lines 219-220 and 186-189: pdflatex ends with 0 or not.
GeneratePdfOutput ==
    /\ mpc = "generate_pdf_output"
    /\ \/ /\ mpc' = "copy_pdf"
          /\ UNCHANGED exc
       \/ /\ mpc' = "latex_error"
          /\ exc' = [kind |-> "ErrorWhenExecutingLatexException", path |-> 0]
    /\ UNCHANGED <<convVars, nsources, latex_bin, nextpath, chapters, language, returned,
                   reads, temp_dir, copied, exit_code>>

\* Lines 221-224: the PDF copied out and the working directory removed, or
\* the copy failing.
CopyPdfAndCleanUp ==
    /\ mpc = "copy_pdf"
    /\ \/ /\ Uncaught("OSError")
          /\ UNCHANGED <<copied, temp_dir>>
       \/ /\ copied' = copied \cup {"pdf"}
          /\ temp_dir' = "removed"
          /\ Exit(0, NoException)
    /\ UNCHANGED <<convVars, nsources, latex_bin, nextpath, chapters, language, returned,
                   reads>>

\* Lines 230-238: the log and the .tex file copied out, the working
\* directory removed, exit 1; or a copy failing (pdflatex wrote no log).
LatexErrorHandler ==
    /\ mpc = "latex_error"
    /\ \/ /\ Uncaught("OSError")
          /\ UNCHANGED <<copied, temp_dir>>
       \/ /\ Uncaught("OSError")
          /\ copied' = copied \cup {"log"}
          /\ UNCHANGED temp_dir
       \/ /\ copied' = copied \cup {"log", "tex"}
          /\ temp_dir' = "removed"
          /\ Exit(1, exc)
    /\ UNCHANGED <<convVars, nsources, latex_bin, nextpath, chapters, language, returned,
                   reads>>

NextMain ==
    \/ FindLatexBinary
    \/ ReadSource
    \/ DetectLanguage
    \/ MakeTempDir
    \/ GenerateLatexSource
    \/ GeneratePdfOutput
    \/ CopyPdfAndCleanUp
    \/ LatexErrorHandler

SpecMain == InitMain /\ [][NextMain]_vars


\* ------------------------------------------------------------------ claims

Even(n) == n % 2 = 0

Odd(n) == n % 2 = 1

\* The function has left the emphasis loop (it is in the block loop, has
\* returned, or has raised at line 72).
PastEmphasisLoop == pc \in {"for", "returned", "raised"}

\* The positions of s at which the string p starts.
Occurrences(s, p) == { i \in 1..Len(s) : StartsWith(Drop(s, i - 1), p) }

\* The opening emphasis markers of s that no "}" follows.
UnclosedOpenings(s) ==
    { i \in Occurrences(s, TEX_ITALIC_PRE_STR) :
        \A j \in (i + Len(TEX_ITALIC_PRE_STR))..Len(s) : s[j] # "}" }

\* C1 as stated: a text with an even number of "_" gives a title and a body
\* without "_" and no warning.
C1_EvenInputNoWarning ==
    (PastEmphasisLoop /\ Even(Count(input, "_")))
        => /\ warnings = 0
           /\ pc = "returned" => Count(title, "_") = 0 /\ Count(content, "_") = 0

\* C1 amended: a text with an even number of "_" left once line 52 has removed
\* its comment spans gives a title and a body without "_" and no warning.
C1_EvenAfterCommentRemovalNoWarning ==
    (PastEmphasisLoop /\ Even(Count(pre, "_")))
        => /\ warnings = 0
           /\ pc = "returned" => Count(title, "_") = 0 /\ Count(content, "_") = 0

\* C1's case: a text with two markers, a comment span and a line break, returned.
C1_Witness ==
    /\ pc = "returned"
    /\ Count(pre, "_") = 2
    /\ warnings = 0
    /\ CountSub(title \o <<"\n">> \o content, TEX_ITALIC_PRE_STR) = 1

\* What C2 says of the text after the emphasis loop and of the output, for a
\* text that reached the loop with n markers.
OneUnclosedOpening(n) ==
    /\ warnings = 1
    /\ pc = "for" =>
        /\ CountSub(content, TEX_ITALIC_PRE_STR) = (n + 1) \div 2
        /\ Count(content, "}") = (n - 1) \div 2
        /\ Cardinality(UnclosedOpenings(content)) = 1
    /\ pc = "returned" =>
        CountSub(title, TEX_ITALIC_PRE_STR) + CountSub(content, TEX_ITALIC_PRE_STR)
            = (n + 1) \div 2

\* C2 as stated: a text with an odd number of "_" gives exactly one opening
\* marker that no closing marker follows, and one warning.
C2_OddInputOneUnclosed ==
    (pc \in {"for", "returned"} /\ Odd(Count(input, "_")))
        => OneUnclosedOpening(Count(input, "_"))

\* C2 amended: a text with an odd number of "_" left once line 52 has removed
\* its comment spans gives exactly one opening marker that no closing marker
\* follows, and one warning; the function returns.
C2_OddAfterCommentRemovalOneUnclosed ==
    (PastEmphasisLoop /\ Odd(Count(pre, "_")))
        => /\ pc # "raised"
           /\ OneUnclosedOpening(Count(pre, "_"))

\* C2's case: three markers, the third left open, returned with one warning.
C2_Witness ==
    /\ pc = "returned"
    /\ Count(pre, "_") = 3
    /\ warnings = 1

\* s holds "[[", then anything, then "]]".
HasCommentSpan(s) ==
    \E i \in 1..Len(s) : \E j \in (i + 2)..(Len(s) - 1) :
        /\ s[i] = "[" /\ s[i + 1] = "["
        /\ s[j] = "]" /\ s[j + 1] = "]"

\* C3 as stated: of a text with a span [[X]], X free of "]]" but otherwise
\* arbitrary (line breaks included), the output holds no such span any more.
C3_CommentSpansRemoved ==
    (pc = "returned" /\ HasCommentSpan(input))
        => ~HasCommentSpan(title \o <<"\n">> \o content)

\* How many entries of the list of lines out equal line.
RECURSIVE CountLines(_, _)
CountLines(out, line) ==
    IF out = <<>> THEN 0
    ELSE (IF out[1] = line THEN 1 ELSE 0) + CountLines(Tail(out), line)

\* C6 as stated: at the return both block toggles are false, and every
\* \begin{verse}, \begin{quote} of the body has its \end.
C6_BlocksClosedAtReturn ==
    pc = "returned"
        => /\ ~verse
           /\ ~quote
           /\ CountLines(new_paragraphs, BEGIN_VERSE) = CountLines(new_paragraphs, END_VERSE)
           /\ CountLines(new_paragraphs, BEGIN_QUOTE) = CountLines(new_paragraphs, END_QUOTE)

\* A line that is no verse line, no quote line and no scene break.
IsPlainLine(paragraph) ==
    /\ Slice(paragraph, 4) # <<" ", " ", " ", " ">>
    /\ Slice(paragraph, 2) # <<">", " ">>
    /\ paragraph # <<"*">>

\* The last n entries of out.
LastEntries(out, n) == SubSeq(out, Len(out) - n + 1, Len(out))

\* What C7 says the run of quote lines s..e and the plain line e+1 give.
QuoteRunOutput(s, e) ==
    <<BEGIN_QUOTE, Drop(paragraphs[s], 2)>>
        \o [j \in 1..(e - s) |-> <<"\\", "\\">> \o Drop(paragraphs[s + j], 2)]
        \o <<END_QUOTE, paragraphs[e + 1]>>

\* C7: a run of quote lines that starts with the quote toggle false, followed
\* by a plain line, has given \begin{quote}, the first line without its
\* prefix, each further line without its prefix behind "\\", \end{quote},
\* and the plain line, once the plain line is taken.
C7_QuoteRunThenPlain ==
    \A s \in 1..(idx - 1) :
        ( /\ \A j \in s..(idx - 1) : Slice(paragraphs[j], 2) = <<">", " ">>
          /\ ~hist[s].quote
          /\ IsPlainLine(paragraphs[idx]) )
        => /\ Len(new_paragraphs) >= idx - s + 3
           /\ LastEntries(new_paragraphs, idx - s + 3) = QuoteRunOutput(s, idx - 1)
           /\ Len(new_paragraphs) - (idx - s + 3)
                = hist[s].len + (IF hist[s].verse THEN 1 ELSE 0)

\* C7's case: two quote lines and a plain line taken, the run behind a verse
\* block.
C7_Witness ==
    /\ idx >= 4
    /\ hist[idx - 2].verse
    /\ ~hist[idx - 2].quote
    /\ Slice(paragraphs[idx - 2], 2) = <<">", " ">>
    /\ Slice(paragraphs[idx - 1], 2) = <<">", " ">>
    /\ IsPlainLine(paragraphs[idx])

\* C8: a verse line taken with the verse toggle false, then a line that is no
\* verse line: \begin{verse}, the stripped line with "\\", \end{verse}, and
\* only then what the next line gives.
C8_VerseLineThenOther ==
    \A k \in 2..idx :
        ( /\ Slice(paragraphs[k - 1], 4) = <<" ", " ", " ", " ">>
          /\ ~hist[k - 1].verse
          /\ Slice(paragraphs[k], 4) # <<" ", " ", " ", " ">> )
        => /\ Len(new_paragraphs) >= hist[k - 1].len + 4
           /\ SubSeq(new_paragraphs, hist[k - 1].len + 1, hist[k - 1].len + 3)
                = << BEGIN_VERSE,
                     LStrip(paragraphs[k - 1]) \o <<"\\", "\\">>,
                     END_VERSE >>
           /\ hist[k].len = hist[k - 1].len + 2
           /\ ~(IF k = idx THEN verse ELSE hist[k + 1].verse)

\* C8's case: a single verse line, then a quote line, both taken.
C8_Witness ==
    /\ idx >= 2
    /\ Slice(paragraphs[idx - 1], 4) = <<" ", " ", " ", " ">>
    /\ ~hist[idx - 1].verse
    /\ Slice(paragraphs[idx], 2) = <<">", " ">>

\* C9 as stated: a line that does not start with "> ", taken with the quote
\* toggle true, gives \end{quote} first (behind the \end{verse} of an open
\* verse block) and leaves the toggle false; no verse block is open inside a
\* quote block.
C9_QuoteClosedByAnyOtherLine ==
    /\ \A k \in 1..idx :
        (hist[k].quote /\ Slice(paragraphs[k], 2) # <<">", " ">>)
        => /\ Len(new_paragraphs) > hist[k].len + (IF hist[k].verse THEN 1 ELSE 0)
           /\ new_paragraphs[hist[k].len + (IF hist[k].verse THEN 1 ELSE 0) + 1] = END_QUOTE
           /\ ~(IF k = idx THEN quote ELSE hist[k + 1].quote)
    /\ ~(verse /\ quote)

\* s with its first n "_" replaced in one pass from the left, by the opening
\* marker if open is false and the closing one if it is true, in turn.
RECURSIVE MarkFirst(_, _, _)
MarkFirst(s, n, open) ==
    IF s = <<>> \/ n = 0 THEN s
    ELSE IF s[1] = "_"
    THEN (IF open THEN <<"}">> ELSE <<"\\", "e", "m", "p", "h", "{">>)
            \o MarkFirst(Tail(s), n - 1, ~open)
    ELSE <<s[1]>> \o MarkFirst(Tail(s), n, open)

\* C10: after k iterations the loop has replaced the k leftmost "_" of the
\* text it started on, by opening and closing markers in turn, and nothing
\* else; the flag is true after an odd number of iterations; the loop ends
\* after as many iterations as that text has "_".
C10_EmphasisLoopConsumesLeftmost ==
    /\ iters <= Count(pre, "_")
    /\ pc = "while" =>
        /\ content = MarkFirst(pre, iters, FALSE)
        /\ emphasized_text_state = Odd(iters)
        /\ Count(content, "_") = Count(pre, "_") - iters
    /\ PastEmphasisLoop => iters = Count(pre, "_")
    /\ pc \in {"for", "raised"} =>
        /\ content = MarkFirst(pre, iters, FALSE)
        /\ Count(content, "_") = 0

\* C10's case: a loop of three iterations, left.
C10_Witness ==
    /\ pc = "for"
    /\ iters = 3
    /\ Count(pre, "_") = 3

\* C4 as stated: a run that has made its working directory ends with the
\* directory removed, whatever ends it.
C4_TempDirRemovedAtExit ==
    (mpc = "exit" /\ temp_dir # "unset") => temp_dir = "removed"

\* C5 as stated: a path whose reading fails, for whatever reason, ends the
\* run with the exception that carries this path; it is the last path
\* opened, every path before it has its chapter and no metadata is returned.
C5_ReadFailureRaisesInvalidInput ==
    \A k \in 1..Len(reads) :
        reads[k].outcome # "read"
        => /\ exc = [kind |-> "InvalidInputTxtFileException", path |-> reads[k].path]
           /\ k = Len(reads)
           /\ Len(chapters) = k - 1
           /\ ~returned

====
